---- MODULE Spec2Model ----
(***************************************************************************)
(* Clarity PPM demo: the mock Data Provider (Clarity_api_server.py) and    *)
(* the analyzer / report assembler (Claude_desktop_automation.py).         *)
(*                                                                         *)
(* Number representation.  Percentages and day counts are Python numbers   *)
(* (int or float); they are modelled as fixed-point integers in units of   *)
(* 1/Scale, so 15.0001 is 150001 and the source's threshold 15 is          *)
(* 15 * Scale.  Monetary amounts and item counts are plain integers, as in *)
(* the source data.                                                        *)
(***************************************************************************)
EXTENDS Integers, Sequences, FiniteSets, TLC

VARIABLES
    PROJECTS_DATA,      \* Data Provider: the project collection it serves
    api_response,       \* Data Provider: the last get_project request and its response
    projects,           \* analyzer.projects
    portfolio_summary,  \* analyzer.portfolio_summary
    portfolio_health,   \* analyzer.portfolio_health
    pc,                 \* where main() stands
    fetch_result,       \* what fetch_data returned: "pending", TRUE or FALSE
    error,              \* the failure fetch_data caught and printed, "" when none
    requests,           \* the endpoints requested so far, in order
    invoked,            \* the analyzer methods main() has called so far, in order
    insights,           \* the PortfolioInsights generate_insights returned
    files,              \* the report files written to OUTPUT_DIR
    call,   \* the assessor invocation under examination: function and arguments
    ret     \* what that invocation returned (a narrative, or the exception raised)

serverVars == <<PROJECTS_DATA, api_response>>
analyzerVars == <<projects, portfolio_summary, portfolio_health>>
mainVars == <<pc, fetch_result, error, requests, invoked, insights, files>>
assessVars == <<call, ret>>
vars == <<serverVars, analyzerVars, mainVars, assessVars>>

Scale == 10 ^ 4

Abs(x) == IF x < 0 THEN -x ELSE x

(***************************************************************************)
(* Decimal long division of the non-negative rational num/den: the first   *)
(* `decimals` digits after the point, q = floor(num * 10^decimals / den),  *)
(* and the remainder r left over (no intermediate exceeds 10 * den).       *)
(***************************************************************************)
RECURSIVE LongDiv(_, _, _)
LongDiv(num, den, decimals) ==
    IF decimals = 0
    THEN [q |-> num \div den, r |-> num % den]
    ELSE LET p == LongDiv(num, den, decimals - 1)
         IN  [q |-> p.q * 10 + (p.r * 10) \div den, r |-> (p.r * 10) % den]

(***************************************************************************)
(* num/den rounded to `decimals` places, ties to even, as a whole number   *)
(* of units of 10^-decimals: what Python's float formatting and round()    *)
(* do on the exact value.  A float is exact on a tie only when the tie is  *)
(* a binary fraction (x.5, x.25, x.75); the inputs drawn below have no     *)
(* other ties.                                                             *)
(***************************************************************************)
RoundHalfEven(num, den, decimals) ==
    LET p == LongDiv(num, den, decimals)
    IN  IF 2 * p.r < den THEN p.q
        ELSE IF 2 * p.r > den THEN p.q + 1
        ELSE IF p.q % 2 = 0 THEN p.q ELSE p.q + 1

(***************************************************************************)
(* The format specifications ":.1f" and ":.0f" applied to the number       *)
(* num/den: the sign printed and the digits printed, read as a whole       *)
(* number ("-6.2" is [neg |-> TRUE, digits |-> 62]).  A negative value     *)
(* that rounds to zero prints "-0.0".                                      *)
(***************************************************************************)
Format(num, den, decimals) ==
    [neg |-> num < 0, digits |-> RoundHalfEven(Abs(num), den, decimals)]

\* ":.1f" and ":.0f" of a fixed-point number, ":,.0f" of an integer.
Fmt1(x) == Format(x, Scale, 1)
Fmt0(x) == Format(x, Scale, 0)
FmtInt(n) == Format(n, 1, 0)

\* The float (part / whole) * 100, kept to 1/Scale and rounded toward zero.
Percentage(part, whole) == LongDiv(part * 100, whole, 4).q

(***************************************************************************)
(* utilization = (spent / total) * 100 formatted with ":.1f".              *)
(***************************************************************************)
FmtUtilization(spent, total) == Format(spent * 100, total, 1)

(***************************************************************************)
(* A narrative is an f-string: its tier word (the text before the colon),  *)
(* and the values interpolated into it, in the order they are printed.     *)
(***************************************************************************)
Tier(narrative) == narrative.tier

_assess_scope_ge15(variance, changes) ==
    IF variance >= 15 * Scale
    THEN [tier |-> "CRITICAL", text |-> "Scope has grown",
          variance |-> Fmt1(variance), changes |-> changes]
    ELSE IF variance > 5 * Scale
    THEN [tier |-> "WARNING", text |-> "Scope variance of",
          variance |-> Fmt1(variance), changes |-> changes]
    ELSE [tier |-> "HEALTHY", text |-> "Scope is well-controlled",
          variance |-> Fmt1(variance)]

_assess_scope(variance, changes) ==
    IF variance > 15 * Scale
    THEN [tier |-> "CRITICAL", text |-> "Scope has grown",
          variance |-> Fmt1(variance), changes |-> changes]
    ELSE IF variance > 5 * Scale
    THEN [tier |-> "WARNING", text |-> "Scope variance of",
          variance |-> Fmt1(variance), changes |-> changes]
    ELSE [tier |-> "HEALTHY", text |-> "Scope is well-controlled",
          variance |-> Fmt1(variance)]

ZeroDivisionError == [raised |-> "ZeroDivisionError"]

_assess_budget_le5(variance_pct, spent, total) ==
    IF total = 0 THEN ZeroDivisionError
    ELSE IF variance_pct <= -5 * Scale
    THEN [tier |-> "CRITICAL", text |-> "over budget",
          variance |-> Fmt1(Abs(variance_pct))]
    ELSE IF variance_pct < 0
    THEN [tier |-> "WARNING", text |-> "trending over budget",
          variance |-> Fmt1(Abs(variance_pct)),
          utilization |-> FmtUtilization(spent, total)]
    ELSE [tier |-> "HEALTHY", text |-> "Budget on track",
          variance |-> Fmt1(variance_pct)]

_assess_budget(variance_pct, spent, total) ==
    IF total = 0 THEN ZeroDivisionError
    ELSE IF variance_pct < -5 * Scale
    THEN [tier |-> "CRITICAL", text |-> "over budget",
          variance |-> Fmt1(Abs(variance_pct))]
    ELSE IF variance_pct < 0
    THEN [tier |-> "WARNING", text |-> "trending over budget",
          variance |-> Fmt1(Abs(variance_pct)),
          utilization |-> FmtUtilization(spent, total)]
    ELSE [tier |-> "HEALTHY", text |-> "Budget on track",
          variance |-> Fmt1(variance_pct)]

_assess_timeline_le5(variance_days, completion) ==
    IF variance_days < -20 * Scale
    THEN [tier |-> "CRITICAL", text |-> "days behind schedule",
          days |-> Abs(variance_days), completion |-> completion]
    ELSE IF variance_days <= -5 * Scale
    THEN [tier |-> "WARNING", text |-> "days behind",
          days |-> Abs(variance_days), completion |-> completion]
    ELSE IF variance_days > 5 * Scale
    THEN [tier |-> "AHEAD", text |-> "days ahead of schedule",
          days |-> variance_days]
    ELSE [tier |-> "ON TRACK", text |-> "on schedule",
          completion |-> completion]

_assess_timeline(variance_days, completion) ==
    IF variance_days < -20 * Scale
    THEN [tier |-> "CRITICAL", text |-> "days behind schedule",
          days |-> Abs(variance_days), completion |-> completion]
    ELSE IF variance_days < -5 * Scale
    THEN [tier |-> "WARNING", text |-> "days behind",
          days |-> Abs(variance_days), completion |-> completion]
    ELSE IF variance_days > 5 * Scale
    THEN [tier |-> "AHEAD", text |-> "days ahead of schedule",
          days |-> variance_days]
    ELSE [tier |-> "ON TRACK", text |-> "on schedule",
          completion |-> completion]

(***************************************************************************)
(* The Data Provider's records.  Of each record the model keeps the fields *)
(* that some handler or analyzer method reads: id, name, budget, schedule, *)
(* scope, health and the two risk counts the summary adds up (code,        *)
(* manager, sponsor, department, priority, the dates, the other risk       *)
(* counts and team are only passed through).                               *)
(***************************************************************************)
PRJ001 ==
    [id |-> "PRJ001", name |-> "Digital Transformation Initiative",
     budget |-> [total |-> 750000, spent |-> 625000, remaining |-> 125000,
                 variance |-> -30000, variance_percentage |-> -40000],
     schedule |-> [planned_duration_days |-> 532, actual_duration_days |-> 544,
                   percent_complete |-> 68, variance_days |-> -12 * Scale,
                   milestone_completion |-> "8/12"],
     scope |-> [original_scope_items |-> 45, completed_items |-> 28,
                in_progress_items |-> 12, pending_items |-> 5,
                scope_changes |-> 3, scope_variance_percentage |-> 67000],
     health |-> [overall_status |-> "At Risk", scope_status |-> "Yellow",
                 budget_status |-> "Red", schedule_status |-> "Yellow",
                 health_score |-> 65],
     risks |-> [total |-> 5, critical |-> 2]]

PRJ002 ==
    [id |-> "PRJ002", name |-> "Cloud Migration Project",
     budget |-> [total |-> 450000, spent |-> 280000, remaining |-> 170000,
                 variance |-> 15000, variance_percentage |-> 33000],
     schedule |-> [planned_duration_days |-> 365, actual_duration_days |-> 362,
                   percent_complete |-> 72, variance_days |-> 3 * Scale,
                   milestone_completion |-> "6/8"],
     scope |-> [original_scope_items |-> 32, completed_items |-> 23,
                in_progress_items |-> 7, pending_items |-> 2,
                scope_changes |-> 1, scope_variance_percentage |-> 31000],
     health |-> [overall_status |-> "On Track", scope_status |-> "Green",
                 budget_status |-> "Green", schedule_status |-> "Green",
                 health_score |-> 88],
     risks |-> [total |-> 2, critical |-> 0]]

PRJ003_remaining_typo ==
    [id |-> "PRJ003", name |-> "Customer Portal Redesign",
     budget |-> [total |-> 320000, spent |-> 305000, remaining |-> 25000,
                 variance |-> -20000, variance_percentage |-> -62500],
     schedule |-> [planned_duration_days |-> 303, actual_duration_days |-> 328,
                   percent_complete |-> 85, variance_days |-> -25 * Scale,
                   milestone_completion |-> "8/10"],
     scope |-> [original_scope_items |-> 28, completed_items |-> 22,
                in_progress_items |-> 4, pending_items |-> 7,
                scope_changes |-> 5, scope_variance_percentage |-> 179000],
     health |-> [overall_status |-> "Critical", scope_status |-> "Red",
                 budget_status |-> "Red", schedule_status |-> "Red",
                 health_score |-> 42],
     risks |-> [total |-> 8, critical |-> 4]]

PRJ003 ==
    [id |-> "PRJ003", name |-> "Customer Portal Redesign",
     budget |-> [total |-> 320000, spent |-> 305000, remaining |-> 15000,
                 variance |-> -20000, variance_percentage |-> -62500],
     schedule |-> [planned_duration_days |-> 303, actual_duration_days |-> 328,
                   percent_complete |-> 85, variance_days |-> -25 * Scale,
                   milestone_completion |-> "8/10"],
     scope |-> [original_scope_items |-> 28, completed_items |-> 22,
                in_progress_items |-> 4, pending_items |-> 7,
                scope_changes |-> 5, scope_variance_percentage |-> 179000],
     health |-> [overall_status |-> "Critical", scope_status |-> "Red",
                 budget_status |-> "Red", schedule_status |-> "Red",
                 health_score |-> 42],
     risks |-> [total |-> 8, critical |-> 4]]

PRJ004 ==
    [id |-> "PRJ004", name |-> "Data Warehouse Modernization",
     budget |-> [total |-> 580000, spent |-> 385000, remaining |-> 195000,
                 variance |-> 15000, variance_percentage |-> 26000],
     schedule |-> [planned_duration_days |-> 488, actual_duration_days |-> 488,
                   percent_complete |-> 55, variance_days |-> 0,
                   milestone_completion |-> "8/15"],
     scope |-> [original_scope_items |-> 52, completed_items |-> 28,
                in_progress_items |-> 18, pending_items |-> 6,
                scope_changes |-> 2, scope_variance_percentage |-> 38000],
     health |-> [overall_status |-> "On Track", scope_status |-> "Green",
                 budget_status |-> "Green", schedule_status |-> "Green",
                 health_score |-> 92],
     risks |-> [total |-> 3, critical |-> 1]]

PRJ005 ==
    [id |-> "PRJ005", name |-> "Mobile App Development",
     budget |-> [total |-> 420000, spent |-> 310000, remaining |-> 110000,
                 variance |-> -5000, variance_percentage |-> -12000],
     schedule |-> [planned_duration_days |-> 304, actual_duration_days |-> 312,
                   percent_complete |-> 62, variance_days |-> -8 * Scale,
                   milestone_completion |-> "5/9"],
     scope |-> [original_scope_items |-> 38, completed_items |-> 23,
                in_progress_items |-> 11, pending_items |-> 8,
                scope_changes |-> 4, scope_variance_percentage |-> 105000],
     health |-> [overall_status |-> "At Risk", scope_status |-> "Yellow",
                 budget_status |-> "Yellow", schedule_status |-> "Yellow",
                 health_score |-> 58],
     risks |-> [total |-> 4, critical |-> 1]]

\* The collection the server module defines.
SampleProjects == <<PRJ001, PRJ002, PRJ003, PRJ004, PRJ005>>

(***************************************************************************)
(* Further records, from which project collections other than the sample  *)
(* are built.  They sit on the thresholds the sample does not touch:      *)
(* budget variance -10000, -10001 and 0, schedule variance -5, -20 and +6 *)
(* days, scope variance 10 and 15 percent.                                 *)
(***************************************************************************)
PRJ006 ==
    [id |-> "PRJ006", name |-> "Vendor Consolidation",
     budget |-> [total |-> 200000, spent |-> 110000, remaining |-> 90000,
                 variance |-> -10000, variance_percentage |-> -5 * Scale],
     schedule |-> [planned_duration_days |-> 100, actual_duration_days |-> 105,
                   percent_complete |-> 50, variance_days |-> -5 * Scale,
                   milestone_completion |-> "2/4"],
     scope |-> [original_scope_items |-> 20, completed_items |-> 10,
                in_progress_items |-> 5, pending_items |-> 5,
                scope_changes |-> 2, scope_variance_percentage |-> 10 * Scale],
     health |-> [overall_status |-> "On Track", scope_status |-> "Green",
                 budget_status |-> "Yellow", schedule_status |-> "Green",
                 health_score |-> 80],
     risks |-> [total |-> 1, critical |-> 0]]

PRJ007 ==
    [id |-> "PRJ007", name |-> "Billing Platform Upgrade",
     budget |-> [total |-> 100000, spent |-> 40000, remaining |-> 60000,
                 variance |-> 0, variance_percentage |-> 0],
     schedule |-> [planned_duration_days |-> 200, actual_duration_days |-> 220,
                   percent_complete |-> 30, variance_days |-> -20 * Scale,
                   milestone_completion |-> "1/6"],
     scope |-> [original_scope_items |-> 20, completed_items |-> 8,
                in_progress_items |-> 6, pending_items |-> 6,
                scope_changes |-> 3, scope_variance_percentage |-> 15 * Scale],
     health |-> [overall_status |-> "Critical", scope_status |-> "Yellow",
                 budget_status |-> "Green", schedule_status |-> "Red",
                 health_score |-> 30],
     risks |-> [total |-> 6, critical |-> 3]]

PRJ008 ==
    [id |-> "PRJ008", name |-> "Intranet Refresh",
     budget |-> [total |-> 50000, spent |-> 25000, remaining |-> 25000,
                 variance |-> -10001, variance_percentage |-> -200020],
     schedule |-> [planned_duration_days |-> 60, actual_duration_days |-> 54,
                   percent_complete |-> 90, variance_days |-> 6 * Scale,
                   milestone_completion |-> "3/3"],
     scope |-> [original_scope_items |-> 10, completed_items |-> 9,
                in_progress_items |-> 1, pending_items |-> 0,
                scope_changes |-> 0, scope_variance_percentage |-> 0],
     health |-> [overall_status |-> "On Track", scope_status |-> "Green",
                 budget_status |-> "Red", schedule_status |-> "Green",
                 health_score |-> 75],
     risks |-> [total |-> 0, critical |-> 0]]

ProjectPool == {PRJ001, PRJ002, PRJ003, PRJ005, PRJ006, PRJ007, PRJ008}

MaxProjects == 3

SeqsUpTo(S, n) == UNION { [1..k -> S] : k \in 0..n }

\* The sample, and every collection of at most MaxProjects records of the pool.
Collections == {SampleProjects} \cup SeqsUpTo(ProjectPool, MaxProjects)

(***************************************************************************)
(* Python's built-ins on lists.                                            *)
(***************************************************************************)
RECURSIVE sum(_)
sum(s) == IF s = <<>> THEN 0 ELSE Head(s) + sum(Tail(s))

Map(s, F(_)) == [i \in 1..Len(s) |-> F(s[i])]

Min(S) == CHOOSE m \in S : \A n \in S : m <= n

\* round(num / den, decimals) as a fixed-point number, ties to even on the
\* exact quotient (num may be negative, den is positive).
round(num, den, decimals) ==
    LET unit == Scale \div (10 ^ decimals)
        n == RoundHalfEven(Abs(num), den, decimals) * unit
    IN  IF num < 0 THEN -n ELSE n

(***************************************************************************)
(* The Data Provider's handlers.  A handler answers with a status and, on  *)
(* 200 and 404, a JSON body; an exception in a handler is answered by the  *)
(* framework with status 500.  The "timestamp" member is the wall clock    *)
(* and is read by nobody; it is left out.                                  *)
(***************************************************************************)
InternalServerError == [status |-> 500]

get_projects ==
    [status |-> 200,
     json |-> [success |-> TRUE, total |-> Len(PROJECTS_DATA), data |-> PROJECTS_DATA]]

get_project_substitute(project_id) ==
    LET found == { i \in 1..Len(PROJECTS_DATA) : PROJECTS_DATA[i].id = project_id }
    IN  IF found # {}
        THEN [status |-> 200,
              json |-> [success |-> TRUE, data |-> PROJECTS_DATA[Min(found)]]]
        ELSE IF PROJECTS_DATA # <<>>
        THEN [status |-> 200,
              json |-> [success |-> TRUE, data |-> PROJECTS_DATA[1]]]
        ELSE [status |-> 404,
              json |-> [success |-> FALSE, error |-> "Project not found"]]

get_project(project_id) ==
    LET found == { i \in 1..Len(PROJECTS_DATA) : PROJECTS_DATA[i].id = project_id }
    IN  IF found # {}
        THEN [status |-> 200,
              json |-> [success |-> TRUE, data |-> PROJECTS_DATA[Min(found)]]]
        ELSE [status |-> 404,
              json |-> [success |-> FALSE, error |-> "Project not found"]]

HasStatus(s) == LET Test(p) == p.health.overall_status = s
                IN  Len(SelectSeq(PROJECTS_DATA, Test))

get_portfolio_summary ==
    LET budget_total(p) == p.budget.total
        budget_spent(p) == p.budget.spent
        health_score(p) == p.health.health_score
        percent_complete(p) == p.schedule.percent_complete
        risks_total(p) == p.risks.total
        risks_critical(p) == p.risks.critical
        n == Len(PROJECTS_DATA)
        total_budget == sum(Map(PROJECTS_DATA, budget_total))
        total_spent == sum(Map(PROJECTS_DATA, budget_spent))
    IN  IF n = 0 \/ total_budget = 0
        THEN InternalServerError    \* ZeroDivisionError in the handler
        ELSE [status |-> 200,
              json |-> [success |-> TRUE,
                data |-> [
                  total_projects |-> n,
                  budget |-> [
                    total |-> total_budget,
                    spent |-> total_spent,
                    remaining |-> total_budget - total_spent,
                    utilization_percentage |-> Percentage(total_spent, total_budget)],
                  status_distribution |-> [
                    on_track |-> HasStatus("On Track"),
                    at_risk |-> HasStatus("At Risk"),
                    critical |-> HasStatus("Critical")],
                  average_health_score |->
                      round(sum(Map(PROJECTS_DATA, health_score)), n, 1),
                  average_completion |->
                      round(sum(Map(PROJECTS_DATA, percent_complete)), n, 1),
                  total_risks |-> sum(Map(PROJECTS_DATA, risks_total)),
                  critical_risks |-> sum(Map(PROJECTS_DATA, risks_critical))]]]

get_portfolio_health ==
    LET over(p) == p.budget.variance < 0
        behind(p) == p.schedule.variance_days < 0
        varied(p) == p.scope.scope_variance_percentage > 5 * Scale
        scope_variance(p) == p.scope.scope_variance_percentage
        budget_variance(p) == p.budget.variance
        budget_variance_pct(p) == p.budget.variance_percentage
        variance_days(p) == p.schedule.variance_days
        n == Len(PROJECTS_DATA)
    IN  IF n = 0
        THEN InternalServerError    \* ZeroDivisionError in the handler
        ELSE [status |-> 200,
              json |-> [success |-> TRUE,
                data |-> [
                  scope |-> [
                    projects_with_variance |-> Len(SelectSeq(PROJECTS_DATA, varied)),
                    average_variance |->
                        round(sum(Map(PROJECTS_DATA, scope_variance)), n * Scale, 2)],
                  budget |-> [
                    projects_over_budget |-> Len(SelectSeq(PROJECTS_DATA, over)),
                    total_variance |-> sum(Map(PROJECTS_DATA, budget_variance)),
                    average_variance_percentage |->
                        round(sum(Map(PROJECTS_DATA, budget_variance_pct)), n * Scale, 2)],
                  schedule |-> [
                    projects_behind |-> Len(SelectSeq(PROJECTS_DATA, behind)),
                    average_variance_days |->
                        round(sum(Map(PROJECTS_DATA, variance_days)), n * Scale, 1)]]]]

(***************************************************************************)
(* The analyzer (class ClarityPPMAnalyzer).  self.projects,                *)
(* self.portfolio_summary and self.portfolio_health are the variables      *)
(* projects, portfolio_summary and portfolio_health.                       *)
(***************************************************************************)
EmptyDict == [k \in {} |-> k]

analyze_project_health(project) ==
    IF project.budget.total = 0 THEN ZeroDivisionError
    ELSE
    [project_id |-> project.id,
     project_name |-> project.name,
     overall_status |-> project.health.overall_status,
     health_score |-> project.health.health_score,
     dimensions |-> [
       scope |-> [
         status |-> project.health.scope_status,
         variance_percentage |-> project.scope.scope_variance_percentage,
         assessment |-> _assess_scope(project.scope.scope_variance_percentage,
                                      project.scope.scope_changes),
         metrics |-> [
           total_items |-> project.scope.original_scope_items,
           completed |-> project.scope.completed_items,
           in_progress |-> project.scope.in_progress_items,
           scope_changes |-> project.scope.scope_changes]],
       budget |-> [
         status |-> project.health.budget_status,
         variance_percentage |-> project.budget.variance_percentage,
         variance_amount |-> project.budget.variance,
         assessment |-> _assess_budget(project.budget.variance_percentage,
                                       project.budget.spent, project.budget.total),
         metrics |-> [
           total |-> project.budget.total,
           spent |-> project.budget.spent,
           remaining |-> project.budget.remaining,
           utilization |-> Percentage(project.budget.spent, project.budget.total)]],
       timeline |-> [
         status |-> project.health.schedule_status,
         variance_days |-> project.schedule.variance_days,
         assessment |-> _assess_timeline(project.schedule.variance_days,
                                         project.schedule.percent_complete),
         metrics |-> [
           percent_complete |-> project.schedule.percent_complete,
           planned_duration |-> project.schedule.planned_duration_days,
           actual_duration |-> project.schedule.actual_duration_days,
           milestones |-> project.schedule.milestone_completion]]]]

\* The values the summary text interpolates, in the order they are printed.
_generate_executive_summary ==
    LET ps == portfolio_summary
        ph == portfolio_health
    IN  [total_projects |-> ps.total_projects,
         budget_total |-> FmtInt(ps.budget.total),
         on_track |-> ps.status_distribution.on_track,
         at_risk |-> ps.status_distribution.at_risk,
         critical |-> ps.status_distribution.critical,
         average_health_score |-> Fmt0(ps.average_health_score),
         average_completion |-> Fmt0(ps.average_completion),
         budget_spent |-> FmtInt(ps.budget.spent),
         utilization_percentage |-> Fmt1(ps.budget.utilization_percentage),
         projects_over_budget |-> ph.budget.projects_over_budget,
         average_variance_days |-> Fmt1(ph.schedule.average_variance_days),
         projects_behind |-> ph.schedule.projects_behind,
         projects_with_variance |-> ph.scope.projects_with_variance,
         average_variance |-> Fmt1(ph.scope.average_variance)]

Name(p) == p.name

\* The three concern entries; ', '.join(names) is kept as the list of the
\* names joined, and a count printed into a text as the count.
CriticalConcern(critical) ==
    [severity |-> "Critical",
     concern |-> [count |-> Len(critical),
                  text |-> "Critical Projects Requiring Immediate Attention"],
     details |-> [text |-> "Projects in critical status", names |-> Map(critical, Name)],
     action |-> "Executive review and intervention required within 48 hours"]

AtRiskConcern(at_risk) ==
    [severity |-> "High",
     concern |-> [count |-> Len(at_risk), text |-> "Projects At Risk"],
     details |-> [text |-> "At-risk projects", names |-> Map(at_risk, Name)],
     action |-> "Enhanced monitoring and corrective action plans needed"]

BudgetConcern(budget_issues) ==
    [severity |-> "High",
     concern |-> [text |-> "Significant Budget Overruns"],
     details |-> [count |-> Len(budget_issues),
                  text |-> "projects with budget variance exceeding $10K"],
     action |-> "Financial review and budget reforecast required"]

_identify_key_concerns_le10000(critical, at_risk) ==
    LET overrun(p) == p.budget.variance <= -10000
        budget_issues == SelectSeq(projects, overrun)
    IN  (IF critical # <<>> THEN <<CriticalConcern(critical)>> ELSE <<>>)
        \o (IF at_risk # <<>> THEN <<AtRiskConcern(at_risk)>> ELSE <<>>)
        \o (IF budget_issues # <<>> THEN <<BudgetConcern(budget_issues)>> ELSE <<>>)

_identify_key_concerns_at_risk_first(critical, at_risk) ==
    LET overrun(p) == p.budget.variance < -10000
        budget_issues == SelectSeq(projects, overrun)
    IN  (IF at_risk # <<>> THEN <<AtRiskConcern(at_risk)>> ELSE <<>>)
        \o (IF critical # <<>> THEN <<CriticalConcern(critical)>> ELSE <<>>)
        \o (IF budget_issues # <<>> THEN <<BudgetConcern(budget_issues)>> ELSE <<>>)

_identify_key_concerns_two_critical(critical, at_risk) ==
    LET overrun(p) == p.budget.variance < -10000
        budget_issues == SelectSeq(projects, overrun)
    IN  (IF Len(critical) > 1 THEN <<CriticalConcern(critical)>> ELSE <<>>)
        \o (IF at_risk # <<>> THEN <<AtRiskConcern(at_risk)>> ELSE <<>>)
        \o (IF budget_issues # <<>> THEN <<BudgetConcern(budget_issues)>> ELSE <<>>)

_identify_key_concerns(critical, at_risk) ==
    LET overrun(p) == p.budget.variance < -10000
        budget_issues == SelectSeq(projects, overrun)
    IN  (IF critical # <<>> THEN <<CriticalConcern(critical)>> ELSE <<>>)
        \o (IF at_risk # <<>> THEN <<AtRiskConcern(at_risk)>> ELSE <<>>)
        \o (IF budget_issues # <<>> THEN <<BudgetConcern(budget_issues)>> ELSE <<>>)

_analyze_portfolio_scope_ge10 ==
    LET high(p) == p.scope.scope_variance_percentage >= 10 * Scale
        changes(p) == p.scope.scope_changes
        high_variance == SelectSeq(projects, high)
    IN  [summary |-> [count |-> Len(high_variance),
                      text |-> "projects with high scope variance (>10%)"],
         total_scope_changes |-> sum(Map(projects, changes)),
         average_variance |-> portfolio_health.scope.average_variance,
         projects_with_issues |-> Map(high_variance, Name),
         recommendation |-> IF Len(high_variance) > 2
                            THEN "Implement stricter change control process"
                            ELSE "Scope management is adequate"]

_analyze_portfolio_scope ==
    LET high(p) == p.scope.scope_variance_percentage > 10 * Scale
        changes(p) == p.scope.scope_changes
        high_variance == SelectSeq(projects, high)
    IN  [summary |-> [count |-> Len(high_variance),
                      text |-> "projects with high scope variance (>10%)"],
         total_scope_changes |-> sum(Map(projects, changes)),
         average_variance |-> portfolio_health.scope.average_variance,
         projects_with_issues |-> Map(high_variance, Name),
         recommendation |-> IF Len(high_variance) > 2
                            THEN "Implement stricter change control process"
                            ELSE "Scope management is adequate"]

\* A project exactly on budget counts as over budget.
_analyze_portfolio_budget_le0 ==
    LET over(p) == p.budget.variance <= 0
        variance(p) == p.budget.variance
        over_budget == SelectSeq(projects, over)
        total_variance == sum(Map(projects, variance))
    IN  [summary |-> [count |-> Len(over_budget),
                      text |-> "projects over budget with total variance of",
                      total_variance |-> FmtInt(total_variance)],
         projects_over_budget |-> Len(over_budget),
         total_variance |-> total_variance,
         utilization |-> portfolio_summary.budget.utilization_percentage,
         projects_with_issues |-> Map(over_budget, Name),
         recommendation |-> IF Len(over_budget) > 2
                            THEN "Immediate cost control measures needed"
                            ELSE "Budget performance acceptable"]

_analyze_portfolio_budget ==
    LET over(p) == p.budget.variance < 0
        variance(p) == p.budget.variance
        over_budget == SelectSeq(projects, over)
        total_variance == sum(Map(projects, variance))
    IN  [summary |-> [count |-> Len(over_budget),
                      text |-> "projects over budget with total variance of",
                      total_variance |-> FmtInt(total_variance)],
         projects_over_budget |-> Len(over_budget),
         total_variance |-> total_variance,
         utilization |-> portfolio_summary.budget.utilization_percentage,
         projects_with_issues |-> Map(over_budget, Name),
         recommendation |-> IF Len(over_budget) > 2
                            THEN "Immediate cost control measures needed"
                            ELSE "Budget performance acceptable"]

_analyze_portfolio_timeline ==
    LET behind(p) == p.schedule.variance_days < -5 * Scale
        behind_schedule == SelectSeq(projects, behind)
    IN  [summary |-> [count |-> Len(behind_schedule),
                      text |-> "projects significantly behind schedule (>5 days)"],
         projects_behind |-> Len(behind_schedule),
         average_variance_days |-> portfolio_health.schedule.average_variance_days,
         projects_with_issues |-> Map(behind_schedule, Name),
         recommendation |-> IF Len(behind_schedule) > 2
                            THEN "Resource reallocation assessment required"
                            ELSE "Schedule performance acceptable"]

\* The three recommendation entries.
Priority1(critical) ==
    [priority |-> 1,
     recommendation |-> "Emergency Portfolio Review",
     rationale |-> [count |-> Len(critical),
                    text |-> "projects in critical status requiring immediate executive intervention"],
     actions |-> << "Schedule emergency steering committee meeting within 48 hours",
                    "Develop recovery plans for each critical project",
                    "Assess resource reallocation options",
                    "Determine go/no-go decisions" >>,
     timeline |-> "Immediate (Within 48 hours)"]

Priority2(at_risk) ==
    [priority |-> 2,
     recommendation |-> "Enhanced Project Monitoring",
     rationale |-> [count |-> Len(at_risk),
                    text |-> "at-risk projects need closer oversight"],
     actions |-> << "Increase reporting frequency to weekly",
                    "Assign executive sponsors to at-risk projects",
                    "Implement early warning indicators",
                    "Review and update risk mitigation plans" >>,
     timeline |-> "Within 1 week"]

Priority3 ==
    [priority |-> 3,
     recommendation |-> "Portfolio Budget Reforecast",
     rationale |-> [text |-> "Multiple projects over budget indicating systemic estimation issues"],
     actions |-> << "Conduct comprehensive budget review",
                    "Update forecast-to-complete estimates",
                    "Identify potential funding gaps",
                    "Implement tighter cost controls" >>,
     timeline |-> "Within 2 weeks"]

_generate_recommendations_any_at_risk(critical, at_risk) ==
    (IF critical # <<>> THEN <<Priority1(critical)>> ELSE <<>>)
    \o (IF Len(at_risk) > 0 THEN <<Priority2(at_risk)>> ELSE <<>>)
    \o (IF portfolio_health.budget.projects_over_budget > 2 THEN <<Priority3>> ELSE <<>>)

_generate_recommendations_ge2(critical, at_risk) ==
    (IF critical # <<>> THEN <<Priority1(critical)>> ELSE <<>>)
    \o (IF Len(at_risk) > 1 THEN <<Priority2(at_risk)>> ELSE <<>>)
    \o (IF portfolio_health.budget.projects_over_budget >= 2 THEN <<Priority3>> ELSE <<>>)

\* The two lists change places.
_generate_recommendations_swapped(critical, at_risk) ==
    (IF at_risk # <<>> THEN <<Priority1(at_risk)>> ELSE <<>>)
    \o (IF Len(critical) > 1 THEN <<Priority2(critical)>> ELSE <<>>)
    \o (IF portfolio_health.budget.projects_over_budget > 2 THEN <<Priority3>> ELSE <<>>)

_generate_recommendations(critical, at_risk) ==
    (IF critical # <<>> THEN <<Priority1(critical)>> ELSE <<>>)
    \o (IF Len(at_risk) > 1 THEN <<Priority2(at_risk)>> ELSE <<>>)
    \o (IF portfolio_health.budget.projects_over_budget > 2 THEN <<Priority3>> ELSE <<>>)

\* The analyses come out last project first.
generate_insights_reversed ==
    LET analyses == Map(projects, analyze_project_health)
        project_analyses == [i \in 1..Len(analyses) |-> analyses[Len(analyses) + 1 - i]]
        is_critical(p) == p.health.overall_status = "Critical"
        is_at_risk(p) == p.health.overall_status = "At Risk"
        critical_projects == SelectSeq(projects, is_critical)
        at_risk_projects == SelectSeq(projects, is_at_risk)
    IN  IF \E i \in 1..Len(projects) : projects[i].budget.total = 0
        THEN ZeroDivisionError
        ELSE [executive_summary |-> _generate_executive_summary,
              key_concerns |-> _identify_key_concerns(critical_projects, at_risk_projects),
              scope_analysis |-> _analyze_portfolio_scope,
              budget_analysis |-> _analyze_portfolio_budget,
              timeline_analysis |-> _analyze_portfolio_timeline,
              recommendations |-> _generate_recommendations(critical_projects,
                                                            at_risk_projects),
              project_analyses |-> project_analyses]

\* generate_insights' result; an exception in analyze_project_health
\* propagates out of it.
generate_insights ==
    LET project_analyses == Map(projects, analyze_project_health)
        is_critical(p) == p.health.overall_status = "Critical"
        is_at_risk(p) == p.health.overall_status = "At Risk"
        critical_projects == SelectSeq(projects, is_critical)
        at_risk_projects == SelectSeq(projects, is_at_risk)
    IN  IF \E i \in 1..Len(projects) : projects[i].budget.total = 0
        THEN ZeroDivisionError
        ELSE [executive_summary |-> _generate_executive_summary,
              key_concerns |-> _identify_key_concerns(critical_projects, at_risk_projects),
              scope_analysis |-> _analyze_portfolio_scope,
              budget_analysis |-> _analyze_portfolio_budget,
              timeline_analysis |-> _analyze_portfolio_timeline,
              recommendations |-> _generate_recommendations(critical_projects,
                                                            at_risk_projects),
              project_analyses |-> project_analyses]

\* The report document; its metadata is fixed text and the wall clock.
Report(the_insights) ==
    [metadata |-> [report_type |-> "Weekly Executive Portfolio Health Report",
                   generated_by |-> "Claude Desktop Automation",
                   data_source |-> "Clarity PPM"],
     portfolio_summary |-> portfolio_summary,
     portfolio_health |-> portfolio_health,
     insights |-> the_insights,
     projects |-> projects]

(***************************************************************************)
(* One request of fetch_data.  What comes back is the handler's answer,    *)
(* or one of the failures of the transport and of the body's decoding:     *)
(*   connection_error  requests.get raises ConnectionError                 *)
(*   timeout           requests.get raises Timeout after 10 seconds        *)
(*   bad_status        an error status from upstream; raise_for_status     *)
(*                     raises HTTPError                                    *)
(*   not_json          response.json() raises                              *)
(*   no_data           the JSON has no 'data' member; KeyError             *)
(* Each is caught in fetch_data, which prints it and returns False.        *)
(***************************************************************************)
Transport == {"delivered", "connection_error", "timeout", "bad_status",
              "not_json", "no_data"}

\* The failure fetch_data catches, "" when the data arrived.
Caught(transport, answer) ==
    CASE transport = "connection_error" -> "ConnectionError"
      [] transport = "timeout" -> "Timeout"
      [] transport = "bad_status" -> "HTTPError"
      [] transport = "not_json" -> "JSONDecodeError"
      [] transport = "no_data" -> "KeyError"
      [] OTHER -> IF answer.status # 200 THEN "HTTPError" ELSE ""

Initial ==
    /\ api_response = [request |-> "none"]
    /\ projects = <<>>
    /\ portfolio_summary = EmptyDict
    /\ portfolio_health = EmptyDict
    /\ pc = "fetch_projects"
    /\ fetch_result = "pending"
    /\ error = ""
    /\ requests = <<>>
    /\ invoked = <<>>
    /\ insights = EmptyDict
    /\ files = {}
    /\ call = [fn |-> "none"]
    /\ ret = [fn |-> "none"]

\* The deployment of the repository: the server holds its sample collection.
Init ==
    /\ PROJECTS_DATA = SampleProjects
    /\ Initial

\* Any collection in place of the sample.
InitAny ==
    /\ PROJECTS_DATA \in Collections
    /\ Initial

\* The failure is printed and the run goes on.
FetchFails_and_continues(caught) ==
    /\ error' = caught
    /\ fetch_result' = TRUE
    /\ pc' = "generate_insights"

\* The failed request is sent again.
FetchFails_retries(caught) ==
    /\ error' = caught
    /\ fetch_result' = FALSE
    /\ pc' = pc

\* fetch_data fails: it returns False and main() returns.
FetchFails(caught) ==
    /\ error' = caught
    /\ fetch_result' = FALSE
    /\ pc' = "exited"

FetchProjects ==
    /\ pc = "fetch_projects"
    /\ invoked' = Append(invoked, "fetch_data")
    /\ requests' = Append(requests, "/projects")
    /\ \E transport \in Transport :
         LET answer == get_projects
             caught == Caught(transport, answer)
         IN  IF caught = ""
             THEN /\ projects' = answer.json.data
                  /\ pc' = "fetch_summary"
                  /\ UNCHANGED <<fetch_result, error>>
             ELSE /\ FetchFails(caught)
                  /\ UNCHANGED projects
    /\ UNCHANGED <<serverVars, portfolio_summary, portfolio_health, insights, files,
                   assessVars>>

FetchSummary ==
    /\ pc = "fetch_summary"
    /\ requests' = Append(requests, "/portfolio/summary")
    /\ \E transport \in Transport :
         LET answer == get_portfolio_summary
             caught == Caught(transport, answer)
         IN  IF caught = ""
             THEN /\ portfolio_summary' = answer.json.data
                  /\ pc' = "fetch_health"
                  /\ UNCHANGED <<fetch_result, error>>
             ELSE /\ FetchFails(caught)
                  /\ UNCHANGED portfolio_summary
    /\ UNCHANGED <<serverVars, projects, portfolio_health, invoked, insights, files,
                   assessVars>>

FetchHealth ==
    /\ pc = "fetch_health"
    /\ requests' = Append(requests, "/portfolio/health")
    /\ \E transport \in Transport :
         LET answer == get_portfolio_health
             caught == Caught(transport, answer)
         IN  IF caught = ""
             THEN /\ portfolio_health' = answer.json.data
                  /\ fetch_result' = TRUE
                  /\ pc' = "generate_insights"
                  /\ UNCHANGED error
             ELSE /\ FetchFails(caught)
                  /\ UNCHANGED portfolio_health
    /\ UNCHANGED <<serverVars, projects, portfolio_summary, invoked, insights, files,
                   assessVars>>

GenerateInsights ==
    /\ pc = "generate_insights"
    /\ invoked' = Append(invoked, "generate_insights")
    /\ LET result == generate_insights
       IN  IF result = ZeroDivisionError
           THEN /\ pc' = "crashed"
                /\ UNCHANGED insights
           ELSE /\ insights' = result
                /\ pc' = "generate_report"
    /\ UNCHANGED <<serverVars, analyzerVars, fetch_result, error, requests, files,
                   assessVars>>

GenerateReport ==
    /\ pc = "generate_report"
    /\ invoked' = Append(invoked, "generate_report")
    /\ files' = files \cup
         { [name |-> "executive_report_TIMESTAMP.json", content |-> Report(insights)],
           [name |-> "latest_report.json", content |-> Report(insights)] }
    /\ pc' = "print_summary"
    /\ UNCHANGED <<serverVars, analyzerVars, fetch_result, error, requests, insights,
                   assessVars>>

PrintSummary ==
    /\ pc = "print_summary"
    /\ invoked' = Append(invoked, "print_summary")
    /\ pc' = "done"
    /\ UNCHANGED <<serverVars, analyzerVars, fetch_result, error, requests, insights,
                   files, assessVars>>

\* Some client asks the server for one project: identifiers of sample records,
\* of a record outside the sample, and one that no record has.
RequestIds == {"PRJ001", "PRJ003", "PRJ007", "PRJ999"}

GetProject ==
    /\ \E project_id \in RequestIds :
         api_response' = [request |-> project_id, response |-> get_project(project_id)]
    /\ UNCHANGED <<PROJECTS_DATA, analyzerVars, mainVars, assessVars>>

Next ==
    \/ FetchProjects
    \/ FetchSummary
    \/ FetchHealth
    \/ GenerateInsights
    \/ GenerateReport
    \/ PrintSummary
    \/ GetProject

Spec == Init /\ [][Next]_vars

SpecAny == InitAny /\ [][Next]_vars

(***************************************************************************)
(* The assessors as pure functions: arguments drawn from bounded sets      *)
(* around every threshold, one action per assessor.                        *)
(***************************************************************************)
MaxChanges == 3
MaxStep == 2

\* Offsets, in units of 1/Scale, tried on either side of each threshold.
Steps == { s * k : s \in {-1, 1}, k \in 0..MaxStep }
    \cup { s * (Scale \div 4) : s \in {-1, 1} }

Around(thresholds) == { t * Scale + d : t \in thresholds, d \in Steps }

ScopeVariances == Around({0, 5, 15}) \cup {31000, 67000, 105000, 179000}
BudgetVariances == Around({-5, 0}) \cup {-62500, -40000, -12000, 26000, 33000}
ScheduleVariances == Around({-20, -5, 5}) \cup {-25 * Scale, -12 * Scale, 0, 3 * Scale}
ChangeCounts == 0..MaxChanges
Budgets == { <<625000, 750000>>, <<305000, 320000>>, <<0, 420000>>, <<10, 0>> }
Completions == {0, 55, 100}

InitAssess ==
    /\ PROJECTS_DATA = SampleProjects
    /\ Initial

AssessScope ==
    \E v \in ScopeVariances, ch \in ChangeCounts :
        /\ call' = [fn |-> "_assess_scope", variance |-> v, changes |-> ch]
        /\ ret' = _assess_scope(v, ch)
        /\ UNCHANGED <<serverVars, analyzerVars, mainVars>>

AssessBudget ==
    \E p \in BudgetVariances, b \in Budgets :
        /\ call' = [fn |-> "_assess_budget", variance_pct |-> p,
                    spent |-> b[1], total |-> b[2]]
        /\ ret' = _assess_budget(p, b[1], b[2])
        /\ UNCHANGED <<serverVars, analyzerVars, mainVars>>

AssessTimeline ==
    \E d \in ScheduleVariances, c \in Completions :
        /\ call' = [fn |-> "_assess_timeline", variance_days |-> d, completion |-> c]
        /\ ret' = _assess_timeline(d, c)
        /\ UNCHANGED <<serverVars, analyzerVars, mainVars>>

NextAssess ==
    \/ AssessScope
    \/ AssessBudget
    \/ AssessTimeline

SpecAssess == InitAssess /\ [][NextAssess]_vars

(***************************************************************************)
(* The per-project dimension assessors.                                    *)
(***************************************************************************)

\* C1: whatever the scope variance v and the change count, the narrative
\* _assess_scope returns is CRITICAL iff v > 15, WARNING iff 5 < v <= 15 and
\* HEALTHY iff v <= 5; v = 5 is HEALTHY, v = 15 WARNING, v = 15.0001 CRITICAL.
C1_ScopeTiers ==
    call.fn = "_assess_scope" =>
        LET v == call.variance
        IN  /\ (Tier(ret) = "CRITICAL") <=> (v > 15 * Scale)
            /\ (Tier(ret) = "WARNING") <=> (5 * Scale < v /\ v <= 15 * Scale)
            /\ (Tier(ret) = "HEALTHY") <=> (v <= 5 * Scale)
            /\ (v = 5 * Scale) => (Tier(ret) = "HEALTHY")
            /\ (v = 15 * Scale) => (Tier(ret) = "WARNING")
            /\ (v = 15 * Scale + 1) => (Tier(ret) = "CRITICAL")

C1_Witness ==
    /\ call.fn = "_assess_scope"
    /\ call.variance = 15 * Scale
    /\ call.changes > 0
    /\ Tier(ret) = "WARNING"

\* C2: whatever the budget variance percentage p, with a total budget above
\* zero, the narrative _assess_budget returns is CRITICAL iff p < -5, WARNING
\* iff -5 <= p < 0 and HEALTHY iff p >= 0; p = -5 is WARNING, not CRITICAL.
C2_BudgetTiers ==
    (call.fn = "_assess_budget" /\ call.total > 0) =>
        LET p == call.variance_pct
        IN  /\ (Tier(ret) = "CRITICAL") <=> (p < -5 * Scale)
            /\ (Tier(ret) = "WARNING") <=> (-5 * Scale <= p /\ p < 0)
            /\ (Tier(ret) = "HEALTHY") <=> (p >= 0)
            /\ (p = -5 * Scale) => (Tier(ret) = "WARNING")

C2_Witness ==
    /\ call.fn = "_assess_budget"
    /\ call.total > 0
    /\ call.variance_pct = -5 * Scale
    /\ Tier(ret) = "WARNING"

\* C3: whatever the schedule variance d in days and the completion, the
\* narrative _assess_timeline returns is CRITICAL iff d < -20, WARNING iff
\* -20 <= d < -5, AHEAD iff d > 5 and ON TRACK iff -5 <= d <= 5: exactly one
\* of the four tiers for every d; d = -5 is ON TRACK and d = -20 WARNING.
C3_TimelineTiers ==
    call.fn = "_assess_timeline" =>
        LET d == call.variance_days
        IN  /\ Tier(ret) \in {"CRITICAL", "WARNING", "AHEAD", "ON TRACK"}
            /\ (Tier(ret) = "CRITICAL") <=> (d < -20 * Scale)
            /\ (Tier(ret) = "WARNING") <=> (-20 * Scale <= d /\ d < -5 * Scale)
            /\ (Tier(ret) = "AHEAD") <=> (d > 5 * Scale)
            /\ (Tier(ret) = "ON TRACK") <=> (-5 * Scale <= d /\ d <= 5 * Scale)
            /\ (d = -5 * Scale) => (Tier(ret) = "ON TRACK")
            /\ (d = -20 * Scale) => (Tier(ret) = "WARNING")

C3_Witness ==
    /\ call.fn = "_assess_timeline"
    /\ call.variance_days = -5 * Scale
    /\ Tier(ret) = "ON TRACK"

(***************************************************************************)
(* The portfolio-level outputs, read off the PortfolioInsights that        *)
(* generate_insights returned.                                             *)
(***************************************************************************)
Analyzed == pc \in {"generate_report", "print_summary", "done"}

Count(s, Test(_)) == Cardinality({ i \in 1..Len(s) : Test(s[i]) })

IsCritical(p) == p.health.overall_status = "Critical"
IsAtRisk(p) == p.health.overall_status = "At Risk"
IsOverBudget(p) == p.budget.variance < 0
IsOverrun(p) == p.budget.variance < -10000

\* The place of a concern entry in the fixed order, 0 for anything else.
ConcernRank(c) ==
    CASE c.severity = "Critical" -> 1
      [] c.severity = "High" /\ c.concern.text = "Projects At Risk" -> 2
      [] c.severity = "High" /\ c.concern.text = "Significant Budget Overruns" -> 3
      [] OTHER -> 0

ConcernRanks == Map(insights.key_concerns, ConcernRank)

\* C4: for every project collection the concern list holds a Critical concern iff
\* some project is Critical, the at-risk High concern iff some project is At
\* Risk, and the budget-overrun High concern iff some project's budget variance
\* is below -10000; the concerns present stand in the order critical, at-risk,
\* budget, and a concern whose condition is false is absent, never emitted empty.
C4_Concerns ==
    Analyzed =>
        /\ ConcernRanks =
             (IF Count(projects, IsCritical) > 0 THEN <<1>> ELSE <<>>)
             \o (IF Count(projects, IsAtRisk) > 0 THEN <<2>> ELSE <<>>)
             \o (IF Count(projects, IsOverrun) > 0 THEN <<3>> ELSE <<>>)
        /\ \A i \in DOMAIN insights.key_concerns :
             LET c == insights.key_concerns[i]
             IN  /\ ConcernRanks[i] = 1 =>
                      c.concern.count > 0 /\ Len(c.details.names) = c.concern.count
                 /\ ConcernRanks[i] = 2 =>
                      c.concern.count > 0 /\ Len(c.details.names) = c.concern.count
                 /\ ConcernRanks[i] = 3 => c.details.count > 0

\* A collection with a Critical project and a budget overrun but nobody At Risk.
C4_Witness ==
    /\ Analyzed
    /\ ConcernRanks = <<1, 3>>
    /\ Count(projects, IsAtRisk) = 0

Priority(r) == r.priority

\* The recommendation title that goes with each priority number.
TitleOf(n) ==
    CASE n = 1 -> "Emergency Portfolio Review"
      [] n = 2 -> "Enhanced Project Monitoring"
      [] n = 3 -> "Portfolio Budget Reforecast"

Priorities == Map(insights.recommendations, Priority)

\* C5: for every project collection and portfolio aggregate, Priority 1 is
\* emitted iff some project is Critical, Priority 2 iff more than one project is
\* At Risk, Priority 3 iff the aggregate's over-budget count exceeds 2; each
\* entry keeps its own number and the entries stand in ascending priority.
C5_Recommendations ==
    Analyzed =>
        /\ Priorities =
             (IF Count(projects, IsCritical) > 0 THEN <<1>> ELSE <<>>)
             \o (IF Count(projects, IsAtRisk) > 1 THEN <<2>> ELSE <<>>)
             \o (IF portfolio_health.budget.projects_over_budget > 2
                 THEN <<3>> ELSE <<>>)
        /\ \A i \in DOMAIN insights.recommendations :
             /\ insights.recommendations[i].recommendation = TitleOf(Priorities[i])
             /\ Len(insights.recommendations[i].actions) = 4

\* Priority 3 alone, not renumbered to 1.
C5_Witness ==
    /\ Analyzed
    /\ Priorities = <<3>>
    /\ Count(projects, IsAtRisk) = 1

\* C5, the triggers are independent: each of the eight subsets of the three
\* priorities is the output for some collection (each of these is reachable).
C5_Subset_None == Analyzed /\ Priorities = <<>>
C5_Subset_1 == Analyzed /\ Priorities = <<1>>
C5_Subset_2 == Analyzed /\ Priorities = <<2>>
C5_Subset_3 == Analyzed /\ Priorities = <<3>>
C5_Subset_12 == Analyzed /\ Priorities = <<1, 2>>
C5_Subset_13 == Analyzed /\ Priorities = <<1, 3>>
C5_Subset_23 == Analyzed /\ Priorities = <<2, 3>>
C5_Subset_123 == Analyzed /\ Priorities = <<1, 2, 3>>

\* C6: when the collection has no Critical project, at most one At Risk project
\* and at most two projects over budget (budget variance < 0), the
\* recommendation list is empty.
C6_Quiet ==
    (/\ Analyzed
     /\ Count(projects, IsCritical) = 0
     /\ Count(projects, IsAtRisk) <= 1
     /\ Count(projects, IsOverBudget) <= 2)
    => insights.recommendations = <<>>

\* The largest quiet portfolio: one At Risk, two over budget.
C6_Witness ==
    /\ Analyzed
    /\ Count(projects, IsCritical) = 0
    /\ Count(projects, IsAtRisk) = 1
    /\ Count(projects, IsOverBudget) = 2
    /\ insights.recommendations = <<>>

\* C7: on the five sample projects PRJ001..PRJ005 the concern list starts with a
\* Critical concern naming exactly "Customer Portal Redesign", followed by a High
\* concern naming "Digital Transformation Initiative" and "Mobile App
\* Development" in that order.
C7_SampleConcerns ==
    (Analyzed /\ projects = SampleProjects) =>
        /\ Len(insights.key_concerns) >= 2
        /\ insights.key_concerns[1].severity = "Critical"
        /\ insights.key_concerns[1].details.names = <<"Customer Portal Redesign">>
        /\ insights.key_concerns[2].severity = "High"
        /\ insights.key_concerns[2].details.names =
             <<"Digital Transformation Initiative", "Mobile App Development">>

C7_Witness ==
    /\ pc = "done"
    /\ projects = SampleProjects
    /\ insights.key_concerns[1].concern.count = 1
    /\ insights.key_concerns[2].concern.count = 2

(***************************************************************************)
(* The run of main().                                                      *)
(***************************************************************************)
Range(s) == { s[i] : i \in DOMAIN s }

\* C8: in every run, once one of the three fetches has failed (connection
\* error, error status, malformed response) fetch_data has returned False and
\* the run has stopped: generate_insights and generate_report are not invoked
\* and no report file is written, also when an earlier fetch of the run had
\* succeeded and stored its data.
C8_FailedFetchStops ==
    error # "" =>
        /\ fetch_result = FALSE
        /\ pc = "exited"
        /\ Range(invoked) = {"fetch_data"}
        /\ insights = EmptyDict
        /\ files = {}

\* The third fetch fails after the first two stored their data.
C8_Witness ==
    /\ error = "KeyError"
    /\ requests = <<"/projects", "/portfolio/summary", "/portfolio/health">>
    /\ projects # <<>>
    /\ portfolio_summary # EmptyDict
    /\ pc = "exited"
    /\ files = {}

(***************************************************************************)
(* The Data Provider.                                                      *)
(***************************************************************************)

\* C9: for every identifier, get_project answers with success and the record
\* whose id is the identifier when the collection has one, and otherwise with
\* the not-found outcome (success false, status 404) and no project data; it
\* never answers with a record of another id.
C9_GetProject ==
    api_response.request # "none" =>
        LET id == api_response.request
            r == api_response.response
            exists == \E i \in DOMAIN PROJECTS_DATA : PROJECTS_DATA[i].id = id
        IN  /\ exists => /\ r.status = 200
                         /\ r.json.success = TRUE
                         /\ r.json.data \in Range(PROJECTS_DATA)
                         /\ r.json.data.id = id
            /\ ~exists => /\ r.status = 404
                          /\ r.json.success = FALSE
                          /\ "data" \notin DOMAIN r.json
            /\ "data" \in DOMAIN r.json => r.json.data.id = id

\* An identifier nobody has, asked of a collection that is not empty.
C9_Witness ==
    /\ api_response.request = "PRJ999"
    /\ PROJECTS_DATA # <<>>
    /\ api_response.response.status = 404

ScopeItems(p) ==
    p.scope.completed_items + p.scope.in_progress_items + p.scope.pending_items

\* C10, as claimed: every record of the server's collection has
\* remaining = total - spent and completed + in_progress + pending items
\* <= original_scope_items.
C10_AsClaimed ==
    \A i \in DOMAIN PROJECTS_DATA :
        LET p == PROJECTS_DATA[i]
        IN  /\ p.budget.remaining = p.budget.total - p.budget.spent
            /\ ScopeItems(p) <= p.scope.original_scope_items

\* C10, amended: every record of the server's collection has
\* remaining = total - spent, and its completed + in_progress + pending items
\* are at most original_scope_items + scope_changes (they exceed
\* original_scope_items in PRJ003 and PRJ005).
C10_Amended ==
    \A i \in DOMAIN PROJECTS_DATA :
        LET p == PROJECTS_DATA[i]
        IN  /\ p.budget.remaining = p.budget.total - p.budget.spent
            /\ ScopeItems(p) <= p.scope.original_scope_items + p.scope.scope_changes

\* The server hands out a record with more items than its original scope.
C10_Witness ==
    /\ api_response.request = "PRJ003"
    /\ api_response.response.status = 200
    /\ ScopeItems(api_response.response.json.data)
         > api_response.response.json.data.scope.original_scope_items

(***************************************************************************)
(* The portfolio dimension analyses.                                       *)
(***************************************************************************)
IsScopeOutlier(p) == p.scope.scope_variance_percentage > 10 * Scale
IsBehind(p) == p.schedule.variance_days < -5 * Scale

\* C11: for every project collection each dimension analysis lists exactly the
\* projects beyond its outlier threshold, in collection order (scope variance
\* above 10 percent; budget variance below 0; schedule variance below -5 days),
\* and recommends the "tighten process" message iff that count exceeds 2 and
\* the "acceptable" message otherwise, with the same cutoff 2 in all three.
C11_DimensionAnalyses ==
    Analyzed =>
        /\ insights.scope_analysis.projects_with_issues
             = Map(SelectSeq(projects, IsScopeOutlier), Name)
        /\ insights.scope_analysis.recommendation
             = IF Count(projects, IsScopeOutlier) > 2
               THEN "Implement stricter change control process"
               ELSE "Scope management is adequate"
        /\ insights.budget_analysis.projects_with_issues
             = Map(SelectSeq(projects, IsOverBudget), Name)
        /\ insights.budget_analysis.recommendation
             = IF Count(projects, IsOverBudget) > 2
               THEN "Immediate cost control measures needed"
               ELSE "Budget performance acceptable"
        /\ insights.timeline_analysis.projects_with_issues
             = Map(SelectSeq(projects, IsBehind), Name)
        /\ insights.timeline_analysis.recommendation
             = IF Count(projects, IsBehind) > 2
               THEN "Resource reallocation assessment required"
               ELSE "Schedule performance acceptable"

\* Exactly two scope outliers (acceptable) beside three projects over budget
\* (tighten), one of the listed projects not being the first of the collection.
C11_Witness ==
    /\ Analyzed
    /\ Count(projects, IsScopeOutlier) = 2
    /\ ~IsScopeOutlier(projects[1])
    /\ insights.scope_analysis.recommendation = "Scope management is adequate"
    /\ Count(projects, IsOverBudget) = 3
    /\ insights.budget_analysis.recommendation = "Immediate cost control measures needed"

(***************************************************************************)
(* The Concern Identifier on collections that differ by one change: the    *)
(* analyzer holds a collection, a project is appended to it or its         *)
(* Critical projects are taken out, and the concerns are identified again  *)
(* the way generate_insights does it.                                      *)
(***************************************************************************)
key_concerns ==
    _identify_key_concerns(SelectSeq(projects, LAMBDA p : p.health.overall_status = "Critical"),
                           SelectSeq(projects, LAMBDA p : p.health.overall_status = "At Risk"))

InitConcerns ==
    /\ PROJECTS_DATA = SampleProjects
    /\ api_response = [request |-> "none"]
    /\ projects \in SeqsUpTo(ProjectPool, MaxProjects)
    /\ portfolio_summary = EmptyDict
    /\ portfolio_health = EmptyDict
    /\ pc = "generate_insights"
    /\ fetch_result = TRUE
    /\ error = ""
    /\ requests = <<>>
    /\ invoked = <<>>
    /\ insights = EmptyDict
    /\ files = {}
    /\ call = [fn |-> "_identify_key_concerns", change |-> "none", added |-> <<>>,
               projects_before |-> projects, concerns_before |-> key_concerns]
    /\ ret = key_concerns

IdentifyAfterAdding ==
    /\ Len(projects) < MaxProjects
    /\ \E p \in ProjectPool :
         /\ projects' = Append(projects, p)
         /\ call' = [fn |-> "_identify_key_concerns", change |-> "add", added |-> <<p>>,
                     projects_before |-> projects, concerns_before |-> key_concerns]
    /\ ret' = key_concerns'
    /\ UNCHANGED <<serverVars, portfolio_summary, portfolio_health, mainVars>>

IdentifyAfterRemovingCritical ==
    /\ projects' = SelectSeq(projects, LAMBDA p : p.health.overall_status # "Critical")
    /\ call' = [fn |-> "_identify_key_concerns", change |-> "remove_critical",
                added |-> <<>>,
                projects_before |-> projects, concerns_before |-> key_concerns]
    /\ ret' = key_concerns'
    /\ UNCHANGED <<serverVars, portfolio_summary, portfolio_health, mainVars>>

NextConcerns ==
    \/ IdentifyAfterAdding
    \/ IdentifyAfterRemovingCritical

SpecConcerns == InitConcerns /\ [][NextConcerns]_vars

HasConcern(concerns, rank) ==
    \E i \in DOMAIN concerns : ConcernRank(concerns[i]) = rank

\* C12: a collection with no Critical project has no Critical concern; adding
\* one Critical project to such a collection makes the Critical concern appear
\* as the first entry and leaves the presence of the other concerns as it was,
\* unless the added project itself triggers them; removing all Critical
\* projects from any collection removes the Critical concern.
C12_Monotonic ==
    /\ Count(projects, IsCritical) = 0 => ~HasConcern(ret, 1)
    /\ (/\ call.change = "add"
        /\ Count(call.projects_before, IsCritical) = 0
        /\ IsCritical(call.added[1]))
       => /\ ~HasConcern(call.concerns_before, 1)
          /\ ret # <<>>
          /\ ConcernRank(ret[1]) = 1
          /\ HasConcern(ret, 2) <=> HasConcern(call.concerns_before, 2)
          /\ HasConcern(ret, 3) <=>
               (HasConcern(call.concerns_before, 3) \/ IsOverrun(call.added[1]))
    /\ call.change = "remove_critical" => ~HasConcern(ret, 1)

\* A Critical project without overrun joins an At Risk project: the Critical
\* concern appears in front of the At Risk concern, and no budget concern does.
C12_Witness ==
    /\ call.change = "add"
    /\ Count(call.projects_before, IsCritical) = 0
    /\ IsCritical(call.added[1])
    /\ Map(call.concerns_before, ConcernRank) = <<2>>
    /\ Map(ret, ConcernRank) = <<1, 2>>

\* Critical projects are taken out of a collection that had the concern.
C12_WitnessRemoved ==
    /\ call.change = "remove_critical"
    /\ HasConcern(call.concerns_before, 1)
    /\ ~HasConcern(ret, 1)

(***************************************************************************)
(* The engine invoked repeatedly on one set of fetched data: the analyzer  *)
(* as fetch_data leaves it when all three fetches succeed, then any number *)
(* of calls of analyze_project_health and generate_insights.  Each call    *)
(* records the analyzer's data as it found it and, when the call before it *)
(* was the same call, what that one returned.                              *)
(***************************************************************************)
AnalyzerData == <<projects, portfolio_summary, portfolio_health>>

InitEngine ==
    /\ PROJECTS_DATA \in Collections
    /\ get_portfolio_summary.status = 200
    /\ get_portfolio_health.status = 200
    /\ api_response = [request |-> "none"]
    /\ projects = get_projects.json.data
    /\ portfolio_summary = get_portfolio_summary.json.data
    /\ portfolio_health = get_portfolio_health.json.data
    /\ pc = "generate_insights"
    /\ fetch_result = TRUE
    /\ error = ""
    /\ requests = <<"/projects", "/portfolio/summary", "/portfolio/health">>
    /\ invoked = <<"fetch_data">>
    /\ insights = EmptyDict
    /\ files = {}
    /\ call = [fn |-> "none"]
    /\ ret = [fn |-> "none"]

\* The loop that empties the list it walks.
InvokeInsights_consuming ==
    /\ call' = [fn |-> "generate_insights",
                data_before |-> AnalyzerData,
                earlier |-> IF call.fn = "generate_insights" THEN <<ret>> ELSE <<>>]
    /\ ret' = generate_insights
    /\ projects' = <<>>
    /\ UNCHANGED <<serverVars, portfolio_summary, portfolio_health, mainVars>>

InvokeInsights ==
    /\ call' = [fn |-> "generate_insights",
                data_before |-> AnalyzerData,
                earlier |-> IF call.fn = "generate_insights" THEN <<ret>> ELSE <<>>]
    /\ ret' = generate_insights
    /\ UNCHANGED <<serverVars, analyzerVars, mainVars>>

InvokeAnalyze ==
    /\ \E i \in DOMAIN projects :
         /\ call' = [fn |-> "analyze_project_health",
                     index |-> i,
                     project_before |-> projects[i],
                     data_before |-> AnalyzerData,
                     earlier |-> IF call.fn = "analyze_project_health" /\ call.index = i
                                 THEN <<ret>> ELSE <<>>]
         /\ ret' = analyze_project_health(projects[i])
    /\ UNCHANGED <<serverVars, analyzerVars, mainVars>>

NextEngine ==
    \/ InvokeAnalyze
    \/ InvokeInsights

SpecEngine == InitEngine /\ [][NextEngine]_vars

C13_WitnessAnalyze ==
    /\ call.fn = "analyze_project_health"
    /\ call.earlier # <<>>
    /\ ret = call.earlier[1]
    /\ ret.project_id = call.project_before.id

Endpoints == <<"/projects", "/portfolio/summary", "/portfolio/health">>

IsPrefix(s, t) == Len(s) <= Len(t) /\ s = SubSeq(t, 1, Len(s))

\* C14: fetch_data never retries: each of the three endpoints is requested at
\* most once and in the order projects, summary, health; the request that
\* fails is the last one sent, and its failure is returned at once as False.
C14_NoRetries ==
    /\ [](IsPrefix(requests, Endpoints))
    /\ [](error # "" => fetch_result = FALSE /\ pc = "exited")
    /\ [][error # "" => requests' = requests]_vars
    /\ [][error = "" /\ error' # "" =>
            /\ Len(requests') = Len(requests) + 1
            /\ fetch_result' = FALSE]_vars

\* The summary request failed after the projects arrived: two requests, no third.
C14_Witness ==
    /\ error # ""
    /\ requests = <<"/projects", "/portfolio/summary">>
    /\ fetch_result = FALSE
    /\ pc = "exited"
    /\ api_response.request # "none"

\* The fields of one project's analysis that are copied from its record, and
\* the three narratives computed from that record's own figures.
IsAnalysisOf(analysis, project) ==
    /\ analysis.project_id = project.id
    /\ analysis.project_name = project.name
    /\ analysis.overall_status = project.health.overall_status
    /\ analysis.health_score = project.health.health_score
    /\ analysis.dimensions.scope.status = project.health.scope_status
    /\ analysis.dimensions.budget.status = project.health.budget_status
    /\ analysis.dimensions.timeline.status = project.health.schedule_status
    /\ analysis.dimensions.scope.variance_percentage = project.scope.scope_variance_percentage
    /\ analysis.dimensions.budget.variance_percentage = project.budget.variance_percentage
    /\ analysis.dimensions.budget.variance_amount = project.budget.variance
    /\ analysis.dimensions.timeline.variance_days = project.schedule.variance_days
    /\ analysis.dimensions.scope.assessment =
         _assess_scope(project.scope.scope_variance_percentage, project.scope.scope_changes)
    /\ analysis.dimensions.budget.assessment =
         _assess_budget(project.budget.variance_percentage, project.budget.spent,
                        project.budget.total)
    /\ analysis.dimensions.timeline.assessment =
         _assess_timeline(project.schedule.variance_days, project.schedule.percent_complete)

\* C15: generate_insights produces exactly one analysis per project, in
\* collection order; each copies its project's id, name, overall status, health
\* score, the three dimension status labels and variance figures, and each
\* dimension's narrative is the assessor applied to that same project's figures.
C15_OneAnalysisPerProject ==
    Analyzed =>
        /\ Len(insights.project_analyses) = Len(projects)
        /\ \A i \in 1..Len(projects) :
             IsAnalysisOf(insights.project_analyses[i], projects[i])

\* Three different projects whose narratives differ in every dimension between
\* the first and the last.
C15_Witness ==
    /\ Analyzed
    /\ Len(projects) = MaxProjects
    /\ Len(insights.project_analyses) = MaxProjects
    /\ \A i, j \in 1..Len(projects) : i # j => projects[i].id # projects[j].id
    /\ LET first == insights.project_analyses[1].dimensions
           last == insights.project_analyses[Len(projects)].dimensions
       IN  /\ first.scope.assessment.tier # last.scope.assessment.tier
           /\ first.budget.assessment.tier # last.budget.assessment.tier
           /\ first.timeline.assessment.tier # last.timeline.assessment.tier

HasPriority(n) == n \in Range(Priorities)

\* C16: in every insights value generate_insights produces, a Priority 1
\* recommendation is present iff a Critical concern is present; whenever a
\* Priority 2 recommendation is present the at-risk High concern is present
\* too, and the at-risk concern stands without Priority 2 only when exactly
\* one project is At Risk.
C16_ConcernsAndPriorities ==
    Analyzed =>
        /\ HasPriority(1) <=> HasConcern(insights.key_concerns, 1)
        /\ HasPriority(2) => HasConcern(insights.key_concerns, 2)
        /\ (HasConcern(insights.key_concerns, 2) /\ ~HasPriority(2))
             <=> Count(projects, IsAtRisk) = 1

\* One project At Risk beside a Critical one: the at-risk concern without
\* Priority 2, the Critical concern with Priority 1.
C16_Witness ==
    /\ Analyzed
    /\ Count(projects, IsAtRisk) = 1
    /\ Count(projects, IsCritical) > 0
    /\ HasConcern(insights.key_concerns, 2)
    /\ ~HasPriority(2)
    /\ HasConcern(insights.key_concerns, 1)
    /\ HasPriority(1)

\* Several projects At Risk: the at-risk concern together with Priority 2.
C16_WitnessBoth ==
    /\ Analyzed
    /\ Count(projects, IsAtRisk) > 1
    /\ HasConcern(insights.key_concerns, 2)
    /\ HasPriority(2)

\* C17: the aggregate being computed by the server from the collection the
\* analyzer holds, the budget analysis's own projects_over_budget and
\* total_variance equal the aggregate's, so Priority 3 is emitted iff the
\* budget analysis recommends "Immediate cost control measures needed".
C17_BudgetAgreement ==
    Analyzed =>
        /\ projects = PROJECTS_DATA
        /\ insights.budget_analysis.projects_over_budget =
             portfolio_health.budget.projects_over_budget
        /\ insights.budget_analysis.total_variance =
             portfolio_health.budget.total_variance
        /\ HasPriority(3) <=>
             insights.budget_analysis.recommendation =
               "Immediate cost control measures needed"

\* Three projects over budget: both counts are 3, Priority 3 and the cost
\* control recommendation appear together.
C17_Witness ==
    /\ Analyzed
    /\ insights.budget_analysis.projects_over_budget > 2
    /\ portfolio_health.budget.projects_over_budget > 2
    /\ insights.budget_analysis.total_variance < 0
    /\ HasPriority(3)
    /\ insights.budget_analysis.recommendation = "Immediate cost control measures needed"

\* Two projects over budget beside one exactly on budget: neither appears.
C17_WitnessOnBudget ==
    /\ Analyzed
    /\ \E i \in 1..Len(projects) : projects[i].budget.variance = 0
    /\ insights.budget_analysis.projects_over_budget = 2
    /\ ~HasPriority(3)
    /\ insights.budget_analysis.recommendation = "Budget performance acceptable"

====
